---- MODULE Spec2Model ----
(***************************************************************************)
(* Model of the cons! macro of src/src/lib.rs: an iterator is destructured *)
(* by a pattern  b1 :: b2 :: ... :: tail  where every bi is an identifier  *)
(* or a parenthesised pattern and tail is an identifier (bound to the Vec  *)
(* of the remaining items) or the token nil.  The macro expands into a     *)
(* sequence of let statements in the caller's scope; one action of the     *)
(* model is one expansion step of the recursive rule set.                  *)
(***************************************************************************)
EXTENDS Integers, Sequences, FiniteSets, TLC

VARIABLES
    src,       \* the items of the collection the iterator walks
    pos,       \* number of items the iterator has yielded so far
    pat,       \* the pattern of the current invocation
    seg,       \* number of binders of pat already expanded and executed
    env,       \* let bindings the expansion has put in the caller's scope
    pc,        \* "idle", "match" (inside the expansion), "done"
    outcome,   \* "none", "ok" or "panic"
    msg,       \* the panic message: format string and formatted arguments
    startPos,  \* pos when the current invocation began
    matches    \* number of invocations made on this iterator

vars == <<src, pos, pat, seg, env, pc, outcome, msg, startPos, matches>>

----------------------------------------------------------------------------
(* Bounds *)
MaxLen == 4
NumElems == 3
MaxBinders == 3
MaxMatches == 3

(* Items are pairs, as in tests::test_destructure_in_middle *)
Elem == {<<2 * i - 1, 2 * i>> : i \in 1..NumElems}
Seqs == UNION {[1..n -> Elem] : n \in 0..MaxLen}

----------------------------------------------------------------------------
(* Pattern syntax *)
Name(prefix, i) == prefix \o ToString(i)

IdentSeg(i) == [kind |-> "ident", name |-> Name("x", i)]
PatSeg(i) == [kind |-> "pat", fst |-> Name("a", i), snd |-> Name("b", i)]
MkSeg(k, i) == IF k = "ident" THEN IdentSeg(i) ELSE PatSeg(i)

NilTail == [kind |-> "nil"]
CollectorTail == [kind |-> "ident", name |-> "xs"]

KindSeqs == UNION {[1..n -> {"ident", "pat"}] : n \in 0..MaxBinders}

Patterns ==
    {[segs |-> [i \in 1..Len(ks) |-> MkSeg(ks[i], i)], tail |-> t] :
        ks \in KindSeqs, t \in {CollectorTail}}
    \cup
    {[segs |-> [i \in 1..Len(ks) |-> MkSeg(ks[i], i)], tail |-> t] :
        ks \in KindSeqs \ {<<>>}, t \in {NilTail}}

NoPattern == [segs |-> <<>>, tail |-> CollectorTail]

(* stringify!($hd): the source text of the binder *)
Stringify(s) ==
    IF s.kind = "ident" THEN s.name
    ELSE "(" \o s.fst \o ", " \o s.snd \o ")"

----------------------------------------------------------------------------
(* The iterator *)
IterNextNoAdvance(s, p) ==
    IF p < Len(s) THEN [some |-> TRUE, item |-> s[p + 1], pos |-> p]
    ELSE [some |-> FALSE, pos |-> p]

IterNextUnfused(s, p) ==
    IF p < Len(s) THEN [some |-> TRUE, item |-> s[p + 1], pos |-> p + 1]
    ELSE IF Len(s) > 0 THEN [some |-> TRUE, item |-> s[1], pos |-> p]
    ELSE [some |-> FALSE, pos |-> p]

IterNext(s, p) ==
    IF p < Len(s) THEN [some |-> TRUE, item |-> s[p + 1], pos |-> p + 1]
    ELSE [some |-> FALSE, pos |-> p]

IterCountAll(s, p) == [n |-> Len(s), pos |-> Len(s)]

IterCountPeek(s, p) ==
    [n |-> IF p < Len(s) THEN 1 ELSE 0,
     pos |-> IF p < Len(s) THEN p + 1 ELSE p]

IterCount(s, p) == [n |-> Len(s) - p, pos |-> Len(s)]

IterCollectSkipOne(s, p) == [vec |-> SubSeq(s, p + 2, Len(s)), pos |-> Len(s)]

IterCollect(s, p) == [vec |-> SubSeq(s, p + 1, Len(s)), pos |-> Len(s)]

----------------------------------------------------------------------------
(* let $hd = item; an identifier binds the item, a pattern its components *)
PatBindingsSwapped(s, e) ==
    IF s.kind = "ident" THEN (s.name :> e)
    ELSE (s.fst :> e[2]) @@ (s.snd :> e[1])

PatBindings(s, e) ==
    IF s.kind = "ident" THEN (s.name :> e)
    ELSE (s.fst :> e[1]) @@ (s.snd :> e[2])

NoEnv == <<>>

Let(b, scope) == b @@ scope

(* A panic unwinds the scope the macro was expanded in: its lets are gone *)
UnwindKeep(scope) == scope

Unwind(scope) == NoEnv

----------------------------------------------------------------------------
(* Panic messages *)
ExhaustedFmt == "Iterator exhausted before reaching variable {}"
(* the back quotes around nil and ::nil are left out of the string *)
OverflowFmt ==
    "Found nil in cons but iterator is not empty ({rest} elements left)\nConsider removing ::nil"
NoMsg == [fmt |-> "", args |-> <<>>]

(* args are the values the format string interpolates, rendered as text *)
ExhaustedMsgFirst(s) ==
    [fmt |-> ExhaustedFmt, args |-> <<Stringify(IdentSeg(1))>>]

ExhaustedMsg(s) == [fmt |-> ExhaustedFmt, args |-> <<Stringify(s)>>]

OverflowMsgOffByOne(rest) == [fmt |-> OverflowFmt, args |-> <<ToString(rest + 1)>>]

OverflowMsg(rest) == [fmt |-> OverflowFmt, args |-> <<ToString(rest)>>]

----------------------------------------------------------------------------
Init ==
    /\ src \in Seqs
    /\ pos = 0
    /\ pat = NoPattern
    /\ seg = 0
    /\ env = NoEnv
    /\ pc = "idle"
    /\ outcome = "none"
    /\ msg = NoMsg
    /\ startPos = 0
    /\ matches = 0

(* cons!(iter as pattern): the entry rules; the iterator is passed by      *)
(* mutable reference, so a later invocation continues on the same cursor   *)
Invoke(p) ==
    /\ pc \in {"idle", "done"}
    /\ matches < MaxMatches
    /\ pat' = p
    /\ seg' = 0
    /\ env' = NoEnv
    /\ pc' = "match"
    /\ outcome' = "none"
    /\ msg' = NoMsg
    /\ startPos' = pos
    /\ matches' = matches + 1
    /\ UNCHANGED <<src, pos>>

Remaining == Len(pat.segs) - seg

(* @__ iter => hd :: rest  with rest other than nil *)
ConsBinder ==
    /\ pc = "match"
    /\ Remaining >= 1
    /\ ~(Remaining = 1 /\ pat.tail.kind = "nil")
    /\ LET hd == pat.segs[seg + 1]
           r == IterNext(src, pos)
       IN  /\ pos' = r.pos
           /\ IF r.some
              THEN /\ env' = Let(PatBindings(hd, r.item), env)
                   /\ seg' = seg + 1
                   /\ UNCHANGED <<pc, outcome, msg>>
              ELSE /\ env' = Unwind(env)
                   /\ msg' = ExhaustedMsg(hd)
                   /\ outcome' = "panic"
                   /\ pc' = "done"
                   /\ UNCHANGED seg
    /\ UNCHANGED <<src, pat, startPos, matches>>

(* @__ iter => hd :: nil *)
ConsNil ==
    /\ pc = "match"
    /\ Remaining = 1
    /\ pat.tail.kind = "nil"
    /\ LET hd == pat.segs[seg + 1]
           r == IterNext(src, pos)
       IN  IF r.some
           THEN LET c == IterCount(src, r.pos)
                IN  /\ pos' = c.pos
                    /\ seg' = seg + 1
                    /\ pc' = "done"
                    /\ IF c.n = 0
                       THEN /\ env' = Let(PatBindings(hd, r.item), env)
                            /\ outcome' = "ok"
                            /\ UNCHANGED msg
                       ELSE /\ env' = Unwind(Let(PatBindings(hd, r.item), env))
                            /\ msg' = OverflowMsg(c.n)
                            /\ outcome' = "panic"
           ELSE /\ pos' = r.pos
                /\ env' = Unwind(env)
                /\ msg' = ExhaustedMsg(hd)
                /\ outcome' = "panic"
                /\ pc' = "done"
                /\ UNCHANGED seg
    /\ UNCHANGED <<src, pat, startPos, matches>>

(* @__ iter => hd  with hd an identifier: the collector *)
ConsCollect ==
    /\ pc = "match"
    /\ Remaining = 0
    /\ pat.tail.kind = "ident"
    /\ LET c == IterCollect(src, pos)
       IN  /\ pos' = c.pos
           /\ env' = Let(pat.tail.name :> c.vec, env)
    /\ outcome' = "ok"
    /\ pc' = "done"
    /\ UNCHANGED <<src, pat, seg, msg, startPos, matches>>

Next ==
    \/ \E p \in Patterns : Invoke(p)
    \/ ConsBinder
    \/ ConsNil
    \/ ConsCollect

Spec == Init /\ [][Next]_vars

----------------------------------------------------------------------------
(* Vocabulary of the properties *)
Rem == SubSeq(src, startPos + 1, Len(src))   \* the sequence S of this match
K == Len(pat.segs)                           \* number of binders
Taken == pos - startPos                      \* items taken by this match
Done == pc = "done"
Succeeded == Done /\ outcome = "ok"
Panicked == Done /\ outcome = "panic"
ExhaustionError == Panicked /\ msg.fmt = ExhaustedFmt
OverflowError == Panicked /\ msg.fmt = OverflowFmt
EndsInCollector == pat.tail.kind = "ident"
EndsInNil == pat.tail.kind = "nil"
AllSimple == \A i \in 1..K : pat.segs[i].kind = "ident"

SegNames(s) == IF s.kind = "ident" THEN {s.name} ELSE {s.fst, s.snd}
AllNames ==
    UNION {SegNames(pat.segs[i]) : i \in 1..K}
    \cup (IF EndsInCollector THEN {pat.tail.name} ELSE {})

(* binder i holds item i of S: whole for an identifier, by parts otherwise *)
Bound(i) ==
    LET s == pat.segs[i]
    IN  /\ SegNames(s) \subseteq DOMAIN env
        /\ IF s.kind = "ident" THEN env[s.name] = Rem[i]
           ELSE env[s.fst] = Rem[i][1] /\ env[s.snd] = Rem[i][2]

CollectorIs(v) ==
    /\ pat.tail.name \in DOMAIN env
    /\ env[pat.tail.name] = v

----------------------------------------------------------------------------
(* C1: a pattern of K binders and a trailing collector matched against S   *)
(* with Len(S) >= K succeeds, binder i holds S[i] and the collector holds  *)
(* S[K+1..] in order (empty when Len(S) = K)                               *)
C1_CollectorMatch ==
    (Done /\ EndsInCollector /\ Len(Rem) >= K) =>
        /\ outcome = "ok"
        /\ \A i \in 1..K : Bound(i)
        /\ CollectorIs(SubSeq(Rem, K + 1, Len(Rem)))

C1_Witness ==
    Succeeded /\ EndsInCollector /\ K = 2 /\ Len(Rem) = 4 /\ matches = 1

(* C2: with fewer items than binders the match panics with the exhaustion  *)
(* message naming exactly binder Len(S)+1, also for a pattern ending in nil*)
C2_ExhaustionNamesBinder ==
    (Done /\ Len(Rem) < K) =>
        /\ outcome = "panic"
        /\ msg = [fmt |-> ExhaustedFmt,
                  args |-> <<Stringify(pat.segs[Len(Rem) + 1])>>]

C2_Witness ==
    Panicked /\ EndsInNil /\ K = 3 /\ Len(Rem) = 2 /\ msg.args = <<"x3">>

(* C3: a pattern of K >= 1 binders ending in nil matched against S with    *)
(* Len(S) = K succeeds, binder i holds the single item S[i] and the        *)
(* iterator is fully consumed                                              *)
C3_NilExactMatch ==
    (Done /\ EndsInNil /\ Len(Rem) = K) =>
        /\ outcome = "ok"
        /\ \A i \in 1..K : Bound(i)
        /\ pos = Len(src)

C3_Witness ==
    Succeeded /\ EndsInNil /\ K = 3 /\ Len(Rem) = 3 /\ AllSimple

(* C4: a pattern ending in nil matched against S with Len(S) > K panics    *)
(* with the overflow message, which reports Len(S) - K items left and      *)
(* advises to remove ::nil                                                 *)
C4_OverflowReportsCount ==
    (Done /\ EndsInNil /\ Len(Rem) > K) =>
        /\ outcome = "panic"
        /\ msg.fmt = OverflowFmt
        /\ msg.args = <<ToString(Len(Rem) - K)>>

C4_Witness ==
    OverflowError /\ K = 2 /\ Len(Rem) = 4 /\ msg.args = <<"2">>

(* C5 as stated: a pattern of identifiers only, no collector and no nil,   *)
(* matched against S with as many items as the pattern has segments binds  *)
(* every identifier, the last one included, to the single item S[i]        *)
C5_Original ==
    (Done /\ EndsInCollector /\ AllSimple /\ Len(Rem) = K + 1) =>
        /\ outcome = "ok"
        /\ \A i \in 1..K : Bound(i)
        /\ CollectorIs(Rem[K + 1])

(* C5 amended: the last identifier of such a pattern is the collector, so  *)
(* it holds the one-item collection <<S[n]>>; the others hold S[i]         *)
C5_LastIdentCollects ==
    (Done /\ EndsInCollector /\ AllSimple /\ Len(Rem) = K + 1) =>
        /\ outcome = "ok"
        /\ \A i \in 1..K : Bound(i)
        /\ CollectorIs(<<Rem[K + 1]>>)

C5_Witness ==
    Succeeded /\ EndsInCollector /\ AllSimple /\ K = 2 /\ Len(Rem) = 3

(* C6: a structural binder takes exactly one item: while a pattern with a  *)
(* structural binder is matched, the number of items taken equals the      *)
(* number of binders done, whatever their kinds; the sub-names hold the    *)
(* components of that item, the other binders hold the items at their own  *)
(* positions and the collector the remainder after all K binders           *)
C6_StructuralTakesOne ==
    ((pc = "match" \/ Succeeded) /\ ~AllSimple) =>
        /\ pc = "match" => Taken = seg
        /\ \A i \in 1..seg : Bound(i)
        /\ (Succeeded /\ EndsInCollector) =>
               CollectorIs(SubSeq(Rem, K + 1, Len(Rem)))

C6_Witness ==
    /\ Succeeded /\ EndsInCollector /\ K = 3 /\ Len(Rem) = 4
    /\ pat.segs[1].kind = "ident"
    /\ pat.segs[2].kind = "pat"
    /\ pat.segs[3].kind = "ident"
    /\ env["a2"] = Rem[2][1] /\ env["b2"] = Rem[2][2]

(* C7: after a match has ended, either it panicked and none of the         *)
(* pattern's names is bound, or it succeeded and all of them are           *)
C7_AtomicBindings ==
    Done =>
        \/ outcome = "panic" /\ DOMAIN env = {}
        \/ outcome = "ok" /\ DOMAIN env = AllNames

C7_Witness ==
    Panicked /\ seg >= 2 /\ DOMAIN env = {}

(* C8: the overflow message shows the items that were left in the iterator *)
C8_OverflowShowsItems ==
    OverflowError =>
        \A i \in (K + 1)..Len(Rem) :
            \E j \in DOMAIN msg.args : msg.args[j] = ToString(Rem[i])

(* C9: a match begun on a cursor that an earlier match left exhausted      *)
(* panics with the exhaustion message naming its first binder when the     *)
(* pattern has a binder, and binds the empty collection when the pattern   *)
(* is a lone collector                                                     *)
C9_RematchOnExhausted ==
    (Done /\ matches >= 2 /\ startPos = Len(src)) =>
        IF K >= 1
        THEN /\ outcome = "panic"
             /\ msg = [fmt |-> ExhaustedFmt,
                       args |-> <<Stringify(pat.segs[1])>>]
        ELSE /\ outcome = "ok"
             /\ CollectorIs(<<>>)

C9_Witness ==
    /\ ExhaustionError /\ matches = 3 /\ startPos = Len(src)
    /\ Len(src) > 0 /\ K >= 1

(* C10 as stated: a match with a pattern of K binders ending in nil takes  *)
(* a number of items bounded by the pattern (its binders and one more to   *)
(* see that items are left), however long the sequence is                  *)
C10_Original ==
    (Done /\ EndsInNil) => Taken <= K + 1

(* C10 amended: every match, whether its pattern ends in a collector or in *)
(* nil, takes all the items of the sequence                                *)
C10_TakesWholeSequence ==
    Done => Taken = Len(Rem)

C10_Witness ==
    Done /\ EndsInNil /\ K = 1 /\ Len(Rem) = 4 /\ Taken = 4

====
